---- MODULE Spec2Model ----
(***************************************************************************)
(* Model of src/app.py: the two loaders (load_universe, load_weights), the *)
(* wave view builder (build_wave_view) and the steps of main that call     *)
(* them.                                                                   *)
(*                                                                         *)
(* A pandas DataFrame is a record [columns, rows]: columns is the set of   *)
(* column names and rows the sequence of rows, each a function from the    *)
(* column names to cells.  A text (a cell or a column name) is a sequence  *)
(* of one-character strings, so that strip, upper and the parsing of       *)
(* numbers are computed character by character.  NaN is the missing cell.  *)
(* Weights are integers (units of weight): floating point rounding is not  *)
(* modelled.                                                               *)
(***************************************************************************)
EXTENDS Integers, Sequences, FiniteSets, TLC

VARIABLES raw_universe, raw_weights, universe, weights, wave_name, ret, pc, err

vars == <<raw_universe, raw_weights, universe, weights, wave_name, ret, pc, err>>

(***************************************************************************)
(* Texts                                                                   *)
(***************************************************************************)
NaN == <<"NaN">>

isnull(x) == x = NaN

ascii_lowercase ==
  <<"a","b","c","d","e","f","g","h","i","j","k","l","m",
    "n","o","p","q","r","s","t","u","v","w","x","y","z">>

ascii_uppercase ==
  <<"A","B","C","D","E","F","G","H","I","J","K","L","M",
    "N","O","P","Q","R","S","T","U","V","W","X","Y","Z">>

digits == <<"0","1","2","3","4","5","6","7","8","9">>

\* The characters in code point order: Python compares strings by code point.
code_points == <<" ", "-">> \o digits \o ascii_uppercase \o <<"_">> \o ascii_lowercase

index_of(seq, c) == CHOOSE i \in 1..Len(seq) : seq[i] = c

ord(c) == index_of(code_points, c)

upper_char(c) ==
  IF \E i \in 1..Len(ascii_lowercase) : ascii_lowercase[i] = c
  THEN ascii_uppercase[index_of(ascii_lowercase, c)]
  ELSE c

lower_char(c) ==
  IF \E i \in 1..Len(ascii_uppercase) : ascii_uppercase[i] = c
  THEN ascii_lowercase[index_of(ascii_uppercase, c)]
  ELSE c

\* str.upper()
str_upper(s) == [i \in 1..Len(s) |-> upper_char(s[i])]

\* str.lower()
str_lower(s) == [i \in 1..Len(s) |-> lower_char(s[i])]

RECURSIVE str_lstrip(_)
str_lstrip(s) ==
  IF s # <<>> /\ Head(s) = " " THEN str_lstrip(Tail(s)) ELSE s

RECURSIVE str_rstrip(_)
str_rstrip(s) ==
  IF s # <<>> /\ s[Len(s)] = " " THEN str_rstrip(SubSeq(s, 1, Len(s) - 1)) ELSE s

\* str.strip()
str_strip(s) == str_rstrip(str_lstrip(s))

\* astype(str): the missing value becomes the text "nan"
astype_str(x) == IF isnull(x) THEN <<"n","a","n">> ELSE x

\* Python's < on strings
RECURSIVE str_lt(_, _)
str_lt(s, t) ==
  IF t = <<>> THEN FALSE
  ELSE IF s = <<>> THEN TRUE
  ELSE IF Head(s) = Head(t) THEN str_lt(Tail(s), Tail(t))
  ELSE ord(Head(s)) < ord(Head(t))

is_digit(c) == \E i \in 1..Len(digits) : digits[i] = c

RECURSIVE parse_digits(_, _)
parse_digits(s, acc) ==
  IF s = <<>> THEN acc
  ELSE parse_digits(Tail(s), 10 * acc + (index_of(digits, Head(s)) - 1))

all_digits(s) == s # <<>> /\ \A i \in 1..Len(s) : is_digit(s[i])

\* pd.to_numeric(..., errors="coerce") of one cell: a number, or NaN for a
\* missing cell and for a text that is no number.
to_numeric(x) ==
  IF isnull(x) THEN [nan |-> TRUE, val |-> 0]
  ELSE IF all_digits(x) THEN [nan |-> FALSE, val |-> parse_digits(x, 0)]
  ELSE IF x # <<>> /\ Head(x) = "-" /\ all_digits(Tail(x))
       THEN [nan |-> FALSE, val |-> 0 - parse_digits(Tail(x), 0)]
  ELSE [nan |-> TRUE, val |-> 0]

\* fillna(d) of one numeric cell
fillna(v, d) == IF v.nan THEN d ELSE v.val

(***************************************************************************)
(* Column names                                                            *)
(***************************************************************************)
c_Ticker == <<"T","i","c","k","e","r">>
c_Symbol == <<"S","y","m","b","o","l">>
c_ticker == <<"t","i","c","k","e","r">>
c_Sector == <<"S","e","c","t","o","r">>
c_GICS_Sector == <<"G","I","C","S"," ","S","e","c","t","o","r">>
c_Morningstar_Sector ==
  <<"M","o","r","n","i","n","g","s","t","a","r"," ","S","e","c","t","o","r">>
c_Industry == <<"I","n","d","u","s","t","r","y">>
c_sector == <<"s","e","c","t","o","r">>
c_Company == <<"C","o","m","p","a","n","y">>
c_Name == <<"N","a","m","e">>
c_Security_Name == <<"S","e","c","u","r","i","t","y"," ","N","a","m","e">>
c_Long_Name == <<"L","o","n","g"," ","N","a","m","e">>
c_company == <<"c","o","m","p","a","n","y">>
c_Ticker_key == <<"T","i","c","k","e","r","_","k","e","y">>
c_Wave == <<"W","a","v","e">>
c_Weight == <<"W","e","i","g","h","t">>
c_WaveWeight == <<"W","a","v","e","W","e","i","g","h","t">>
suffix_universe == <<"_","u","n","i","v","e","r","s","e">>

(***************************************************************************)
(* DataFrames                                                              *)
(***************************************************************************)
\* pd.DataFrame()
EmptyDataFrame == [columns |-> {}, rows |-> <<>>]

\* DataFrame.empty
empty(df) == df.columns = {} \/ df.rows = <<>>

\* DataFrame.rename(columns={old: new})
rename(df, old, new) ==
  IF old \notin df.columns THEN df
  ELSE [columns |-> (df.columns \ {old}) \cup {new},
        rows |-> [i \in 1..Len(df.rows) |->
                    [c \in (df.columns \ {old}) \cup {new} |->
                       IF c = new THEN df.rows[i][old] ELSE df.rows[i][c]]]]

\* df[col] = None
assign_none(df, col) ==
  [columns |-> df.columns \cup {col},
   rows |-> [i \in 1..Len(df.rows) |->
               [c \in df.columns \cup {col} |->
                  IF c = col THEN NaN ELSE df.rows[i][c]]]]

\* the first candidate that is a column (the for loops of load_universe);
\* <<>> stands for None
RECURSIVE first_in_columns(_, _)
first_in_columns(candidates, columns) ==
  IF candidates = <<>> THEN <<>>
  ELSE IF Head(candidates) \in columns THEN Head(candidates)
  ELSE first_in_columns(Tail(candidates), columns)

RECURSIVE sum_column(_, _)
sum_column(rows, col) ==
  IF rows = <<>> THEN 0 ELSE rows[1][col] + sum_column(Tail(rows), col)

(***************************************************************************)
(* load_universe                                                           *)
(***************************************************************************)
\* the candidates with ticker tried before Symbol
ticker_cols_reordered == <<c_Ticker, c_ticker, c_Symbol>>

ticker_cols == <<c_Ticker, c_Symbol, c_ticker>>

sector_candidates ==
  <<c_Sector, c_GICS_Sector, c_Morningstar_Sector, c_Industry, c_sector>>

name_candidates ==
  <<c_Company, c_Name, c_Security_Name, c_Long_Name, c_company>>

\* the clean join key of one row
ticker_key(row) == str_upper(str_strip(astype_str(row[c_Ticker])))

\* df["Ticker_key"] = df["Ticker"].astype(str).str.strip().str.upper()
assign_ticker_key(df) ==
  [columns |-> df.columns \cup {c_Ticker_key},
   rows |-> [i \in 1..Len(df.rows) |->
               [c \in df.columns \cup {c_Ticker_key} |->
                  IF c = c_Ticker_key THEN ticker_key(df.rows[i])
                  ELSE df.rows[i][c]]]]

\* the ValueError of load_universe: no ticker column
load_universe_raises(df) == first_in_columns(ticker_cols, df.columns) = <<>>

\* the DataFrame load_universe returns when it does not raise
load_universe(df) ==
  LET ticker_col == first_in_columns(ticker_cols, df.columns)
      df1 == IF ticker_col # c_Ticker THEN rename(df, ticker_col, c_Ticker) ELSE df
      sector_col == first_in_columns(sector_candidates, df1.columns)
      df2 == IF sector_col # <<>> /\ sector_col # c_Sector
             THEN rename(df1, sector_col, c_Sector) ELSE df1
      name_col == first_in_columns(name_candidates, df2.columns)
      df3 == IF name_col # <<>> /\ name_col # c_Company
             THEN rename(df2, name_col, c_Company) ELSE df2
      df4 == IF c_Sector \notin df3.columns THEN assign_none(df3, c_Sector) ELSE df3
      df5 == IF c_Company \notin df4.columns THEN assign_none(df4, c_Company) ELSE df4
  IN  assign_ticker_key(df5)

(***************************************************************************)
(* load_weights                                                            *)
(***************************************************************************)
required_cols == <<c_Wave, c_Ticker, c_Weight>>

\* df.columns = [c.strip() for c in df.columns]
strip_columns(df) ==
  LET new == {str_strip(c) : c \in df.columns}
      old(n) == CHOOSE c \in df.columns : str_strip(c) = n
  IN  [columns |-> new,
       rows |-> [i \in 1..Len(df.rows) |-> [n \in new |-> df.rows[i][old(n)]]]]

\* missing = [c for c in required_cols if c not in df.columns]
missing_cols(df) ==
  SelectSeq(required_cols, LAMBDA c : c \notin strip_columns(df).columns)

\* the ValueError of load_weights: a required column is missing
load_weights_raises(df) == missing_cols(df) # <<>>

\* the three normalizing assignments to one row
normalize_weight_row(row) ==
  [c \in DOMAIN row |->
     IF c = c_Wave THEN str_strip(astype_str(row[c]))
     ELSE IF c = c_Ticker THEN str_upper(str_strip(astype_str(row[c])))
     ELSE IF c = c_Weight THEN fillna(to_numeric(row[c]), 0)
     ELSE row[c]]

\* df[df["Weight"] > 0]
positive_weight(row) == row[c_Weight] > 0

\* the DataFrame load_weights returns when it does not raise
load_weights(df) ==
  LET df1 == strip_columns(df)
      normalized == [i \in 1..Len(df1.rows) |-> normalize_weight_row(df1.rows[i])]
  IN  [columns |-> df1.columns, rows |-> SelectSeq(normalized, positive_weight)]

(***************************************************************************)
(* build_wave_view                                                         *)
(***************************************************************************)
RECURSIVE flatten(_)
flatten(seqs) == IF seqs = <<>> THEN <<>> ELSE Head(seqs) \o flatten(Tail(seqs))

\* the weights unfiltered
filter_wave_ignored(df, name) == df

\* weights[weights["Wave"] == wave_name]
filter_wave(df, name) ==
  [columns |-> df.columns,
   rows |-> SelectSeq(df.rows, LAMBDA r : r[c_Wave] = name)]

\* the merge with how="inner": left rows without a match are dropped
merge_inner(left, right, left_on, right_on) ==
  LET columns == left.columns \cup {IF c \in left.columns THEN c \o suffix_universe ELSE c :
                                      c \in right.columns}
      source(n) ==
        CHOOSE c \in right.columns :
          (IF c \in left.columns THEN c \o suffix_universe ELSE c) = n
      matches(l) == SelectSeq(right.rows, LAMBDA r : r[right_on] = l[left_on])
      joined(l, r) ==
        [n \in columns |-> IF n \in left.columns THEN l[n] ELSE r[source(n)]]
      rows_of(l) == [k \in 1..Len(matches(l)) |-> joined(l, matches(l)[k])]
  IN  [columns |-> columns,
       rows |-> flatten([i \in 1..Len(left.rows) |-> rows_of(left.rows[i])])]

\* the name a column of the right table gets in the merge:
\* suffixes=("", "_universe") renames the right one of two equal names
merge_column(left, c) == IF c \in left.columns THEN c \o suffix_universe ELSE c

\* left.merge(right, left_on=..., right_on=..., how="left", suffixes=("", "_universe")):
\* the left rows in order, each once per matching right row in the right's
\* order, or once with the right's columns missing when no right row matches
merge_left(left, right, left_on, right_on) ==
  LET columns == left.columns \cup {merge_column(left, c) : c \in right.columns}
      source(n) == CHOOSE c \in right.columns : merge_column(left, c) = n
      matches(l) == SelectSeq(right.rows, LAMBDA r : r[right_on] = l[left_on])
      joined(l, r) ==
        [n \in columns |-> IF n \in left.columns THEN l[n] ELSE r[source(n)]]
      unmatched(l) ==
        [n \in columns |-> IF n \in left.columns THEN l[n] ELSE NaN]
      rows_of(l) ==
        IF matches(l) = <<>> THEN <<unmatched(l)>>
        ELSE [k \in 1..Len(matches(l)) |-> joined(l, matches(l)[k])]
  IN  [columns |-> columns,
       rows |-> flatten([i \in 1..Len(left.rows) |-> rows_of(left.rows[i])])]

\* the texts of a set in ascending order
RECURSIVE sorted_keys(_)
sorted_keys(S) ==
  IF S = {} THEN <<>>
  ELSE LET m == CHOOSE x \in S : \A y \in S \ {x} : str_lt(x, y)
       IN  <<m>> \o sorted_keys(S \ {m})

\* the group keys of a groupby: the distinct values in ascending order, the
\* missing value last and only with dropna=False
group_keys(rows, by, dropna) ==
  LET values == {rows[i][by] : i \in 1..Len(rows)}
  IN  sorted_keys(values \ {NaN})
        \o (IF ~dropna /\ NaN \in values THEN <<NaN>> ELSE <<>>)

\* the value of the first row of the group, missing or not
agg_first_row(rows, col) == rows[1][col]

\* the aggregation "first": the first value of the group that is not missing
agg_first(rows, col) ==
  LET valid == SelectSeq(rows, LAMBDA r : ~isnull(r[col]))
  IN  IF valid = <<>> THEN NaN ELSE valid[1][col]

\* df.groupby(by, as_index=False).agg(agg_dict)
groupby_agg(df, by, agg_dict) ==
  LET keys == group_keys(df.rows, by, TRUE)
      group(k) == SelectSeq(df.rows, LAMBDA r : r[by] = k)
      columns == {by} \cup DOMAIN agg_dict
  IN  [columns |-> columns,
       rows |-> [i \in 1..Len(keys) |->
                   [c \in columns |->
                      IF c = by THEN keys[i]
                      ELSE IF agg_dict[c] = "sum" THEN sum_column(group(keys[i]), c)
                      ELSE agg_first(group(keys[i]), c)]]]

\* df.groupby(by, dropna=...)[col].sum().reset_index()
groupby_sum(df, by, col, dropna) ==
  LET keys == group_keys(df.rows, by, dropna)
      group(k) == SelectSeq(df.rows, LAMBDA r : r[by] = k)
  IN  [columns |-> {by, col},
       rows |-> [i \in 1..Len(keys) |->
                   [c \in {by, col} |->
                      IF c = by THEN keys[i] ELSE sum_column(group(keys[i]), col)]]]

\* df[cols]
select_columns(df, cols) ==
  [columns |-> cols,
   rows |-> [i \in 1..Len(df.rows) |-> [c \in cols |-> df.rows[i][c]]]]

index_permutations(n) ==
  {p \in [1..n -> 1..n] : \A i, j \in 1..n : i # j => p[i] # p[j]}

\* the sort with ascending=True
sort_values_ascending(df, col) ==
  LET n == Len(df.rows)
      sorted(p) == \A i \in 1..(n - 1) : df.rows[p[i]][col] <= df.rows[p[i + 1]][col]
  IN  {[columns |-> df.columns, rows |-> [i \in 1..n |-> df.rows[p[i]]]] :
         p \in {q \in index_permutations(n) : sorted(q)}}

\* sort_values(col, ascending=False) with the default kind, quicksort, which is
\* not stable: every arrangement of the rows in non-increasing order of col
sort_values_descending(df, col) ==
  LET n == Len(df.rows)
      sorted(p) == \A i \in 1..(n - 1) : df.rows[p[i]][col] >= df.rows[p[i + 1]][col]
  IN  {[columns |-> df.columns, rows |-> [i \in 1..n |-> df.rows[p[i]]]] :
         p \in {q \in index_permutations(n) : sorted(q)}}

\* the rows shown as the top holdings
TopN == 10

\* df.head(n).reset_index(drop=True)
head(df, n) ==
  [columns |-> df.columns,
   rows |-> SubSeq(df.rows, 1, IF Len(df.rows) < n THEN Len(df.rows) ELSE n)]

\* step 2, and the renaming of Weight
merged_of(u, w) ==
  rename(merge_left(w, u, c_Ticker, c_Ticker_key), c_Weight, c_WaveWeight)

\* step 3: agg_dict
agg_dict_of(merged) ==
  [c \in {c_WaveWeight} \cup ({c_Company, c_Sector} \cap merged.columns) |->
     IF c = c_WaveWeight THEN "sum" ELSE "first"]

\* step 3: dedup
dedup_of(merged) == groupby_agg(merged, c_Ticker, agg_dict_of(merged))

\* step 4: the columns of the holdings table
holdings_columns(dedup) ==
  {c_Ticker, c_WaveWeight} \cup ({c_Company, c_Sector} \cap dedup.columns)

\* step 5 with the groupby's default dropna=True
sector_alloc_dropna(dedup) ==
  IF c_Sector \in dedup.columns
  THEN sort_values_descending(
         rename(groupby_sum(dedup, c_Sector, c_WaveWeight, TRUE),
                c_WaveWeight, c_Weight),
         c_Weight)
  ELSE {EmptyDataFrame}

\* step 5: the sector allocations the sort can give
sector_alloc_of(dedup) ==
  IF c_Sector \in dedup.columns
  THEN sort_values_descending(
         rename(groupby_sum(dedup, c_Sector, c_WaveWeight, FALSE),
                c_WaveWeight, c_Weight),
         c_Weight)
  ELSE {EmptyDataFrame}

\* the values build_wave_view can return: a tuple of two tables for a wave
\* with no weight rows, of three tables otherwise
build_wave_view(u, ws, name) ==
  LET w == filter_wave(ws, name)
      dedup == dedup_of(merged_of(u, w))
  IN  IF empty(w) THEN {<<EmptyDataFrame, EmptyDataFrame>>}
      ELSE {<<holdings, head(holdings, TopN), sector_alloc>> :
              holdings \in sort_values_descending(
                             select_columns(dedup, holdings_columns(dedup)),
                             c_WaveWeight),
              sector_alloc \in sector_alloc_of(dedup)}

(***************************************************************************)
(* The inputs: the tables read from the two files                          *)
(***************************************************************************)
\* Four families of input files, each rich in one respect.
MaxWeightRows == 3

MaxKeyRows == 2

MaxUniverseRows == 2

MaxMetaWeightRows == 1

MaxHeaderRows == 1

MaxRawWeightRows == 2

c_TICKER == <<"T","I","C","K","E","R">>
c_symbol == <<"s","y","m","b","o","l">>
c_Wave_padded == <<" ","W","a","v","e">>
c_Weight_padded == <<"W","e","i","g","h","t"," ">>

TickerLike == {c_Ticker, c_Symbol, c_ticker, c_TICKER, c_symbol}

SectorLike == {c_Sector, c_GICS_Sector, c_Morningstar_Sector, c_Industry, c_sector}

\* every table with the given columns, at most max_rows rows and the cells of
\* column c in values(c)
DataFrames(columns, values(_), max_rows) ==
  LET row_set == {r \in [columns -> UNION {values(c) : c \in columns}] :
                    \A c \in columns : r[c] \in values(c)}
  IN  {[columns |-> columns, rows |-> rs] :
         rs \in UNION {[1..n -> row_set] : n \in 0..max_rows}}

\* 1. many weight rows (several waves, repeated tickers, equal weights) over
\*    universes that repeat or lack a ticker
key_cells(c) ==
  IF c = c_Ticker THEN {<<"A">>, <<"b">>}
  ELSE IF c = c_Sector THEN {<<"S">>}
  ELSE {<<"X">>}

wave_cells(c) ==
  IF c = c_Wave THEN {<<"W">>, <<"V", " ">>}
  ELSE IF c = c_Ticker THEN {<<"a">>, <<"B">>}
  ELSE {<<"1">>, <<"2">>}

KeyUniverses == DataFrames({c_Ticker, c_Company, c_Sector}, key_cells, MaxKeyRows)

WaveWeights == DataFrames({c_Wave, c_Ticker, c_Weight}, wave_cells, MaxWeightRows)

\* 2. universes whose rows differ in company and sector, some unset
meta_cells(c) ==
  IF c = c_Ticker THEN {<<"A">>, <<"b">>}
  ELSE IF c = c_Sector THEN {NaN, <<"S">>}
  ELSE {NaN, <<"X">>, <<"Y">>}

meta_weight_cells(c) ==
  IF c = c_Wave THEN {<<"W">>}
  ELSE IF c = c_Ticker THEN {<<"a">>, <<"B">>}
  ELSE {<<"1">>}

MetaUniverses == DataFrames({c_Ticker, c_Company, c_Sector}, meta_cells, MaxUniverseRows)

MetaWeights ==
  DataFrames({c_Wave, c_Ticker, c_Weight}, meta_weight_cells, MaxMetaWeightRows)

\* 3. universes under every header of one or two of these column names
HeaderColumns ==
  {c_Ticker, c_Symbol, c_ticker, c_TICKER, c_symbol, c_Sector, c_Industry, c_Name}

header_cells(c) ==
  IF c \in TickerLike THEN {<<"A">>, <<"b">>}
  ELSE IF c \in SectorLike THEN {<<"S">>}
  ELSE {<<"X">>}

HeaderUniverses ==
  UNION {DataFrames(h, header_cells, MaxHeaderRows) :
           h \in {x \in SUBSET HeaderColumns : Cardinality(x) \in {1, 2}}}

HeaderWeights ==
  {[columns |-> {c_Wave, c_Ticker, c_Weight},
    rows |-> <<(c_Wave :> <<"W">>) @@ (c_Ticker :> <<"a">>) @@ (c_Weight :> <<"1">>)>>]}

\* 4. weights files with missing cells, weights that are no positive number,
\*    padded column names, or a required column missing
raw_weight_cells(c) ==
  IF str_strip(c) = c_Wave THEN {NaN, <<" ", "W">>}
  ELSE IF str_strip(c) = c_Ticker THEN {NaN, <<"a", " ">>}
  ELSE {NaN, <<"a","b","c">>, <<"-","1">>, <<"0">>, <<"1","2">>}

RawUniverses == DataFrames({c_Ticker, c_Company, c_Sector}, key_cells, 0)

RawWeights ==
  DataFrames({c_Wave_padded, c_Ticker, c_Weight_padded}, raw_weight_cells, MaxRawWeightRows)
    \cup DataFrames({c_Wave, c_Weight}, raw_weight_cells, 0)

\* the wave names build_wave_view is called with
WaveNames == {<<"W">>, <<"V">>, <<"n","a","n">>}

(***************************************************************************)
(* The steps of main                                                       *)
(***************************************************************************)
InitWith(universe_files, weights_files) ==
  /\ raw_universe \in universe_files
  /\ raw_weights \in weights_files
  /\ universe = EmptyDataFrame
  /\ weights = EmptyDataFrame
  /\ wave_name = <<>>
  /\ ret = <<>>
  /\ pc = "start"
  /\ err = ""

Init ==
  \/ InitWith(KeyUniverses, WaveWeights)
  \/ InitWith(MetaUniverses, MetaWeights)
  \/ InitWith(HeaderUniverses, HeaderWeights)
  \/ InitWith(RawUniverses, RawWeights)

\* universe = load_universe(UNIVERSE_FILE)
LoadUniverse ==
  /\ pc = "start"
  /\ ~load_universe_raises(raw_universe)
  /\ universe' = load_universe(raw_universe)
  /\ pc' = "universe_loaded"
  /\ UNCHANGED <<raw_universe, raw_weights, weights, wave_name, ret, err>>

\* load_universe raises: st.error, st.stop
LoadUniverseError ==
  /\ pc = "start"
  /\ load_universe_raises(raw_universe)
  /\ pc' = "stopped"
  /\ err' = "universe"
  /\ UNCHANGED <<raw_universe, raw_weights, universe, weights, wave_name, ret>>

\* weights = load_weights(WEIGHTS_FILE)
LoadWeights ==
  /\ pc = "universe_loaded"
  /\ ~load_weights_raises(raw_weights)
  /\ weights' = load_weights(raw_weights)
  /\ pc' = "loaded"
  /\ UNCHANGED <<raw_universe, raw_weights, universe, wave_name, ret, err>>

\* load_weights raises: st.error, st.stop
LoadWeightsError ==
  /\ pc = "universe_loaded"
  /\ load_weights_raises(raw_weights)
  /\ pc' = "stopped"
  /\ err' = "weights"
  /\ UNCHANGED <<raw_universe, raw_weights, universe, weights, wave_name, ret>>

\* a call build_wave_view(universe, weights, name)
BuildWaveView ==
  /\ pc = "loaded"
  /\ \E name \in WaveNames :
       \E r \in build_wave_view(universe, weights, name) :
         /\ wave_name' = name
         /\ ret' = r
  /\ pc' = "built"
  /\ UNCHANGED <<raw_universe, raw_weights, universe, weights, err>>

\* holdings, top10, sector_alloc = build_wave_view(...): three values returned
Unpack ==
  /\ pc = "built"
  /\ Len(ret) = 3
  /\ pc' = "unpacked"
  /\ UNCHANGED <<raw_universe, raw_weights, universe, weights, wave_name, ret, err>>

\* the same assignment when the call returned two values: ValueError
UnpackError ==
  /\ pc = "built"
  /\ Len(ret) # 3
  /\ pc' = "stopped"
  /\ err' = "unpack"
  /\ UNCHANGED <<raw_universe, raw_weights, universe, weights, wave_name, ret>>

Next ==
  \/ LoadUniverse
  \/ LoadUniverseError
  \/ LoadWeights
  \/ LoadWeightsError
  \/ BuildWaveView
  \/ Unpack
  \/ UnpackError

Spec == Init /\ [][Next]_vars

(***************************************************************************)
(* Properties                                                              *)
(***************************************************************************)
\* build_wave_view has returned
Built == pc \in {"built", "unpacked"} \/ (pc = "stopped" /\ err = "unpack")

holdings_rows == ret[1].rows

\* the sector allocation is the last table returned
sector_alloc_table == ret[Len(ret)]

\* the normalized weight rows of the wave
wave_rows == SelectSeq(weights.rows, LAMBDA r : r[c_Wave] = wave_name)

wave_tickers == {wave_rows[i][c_Ticker] : i \in 1..Len(wave_rows)}

\* the joined rows of one ticker, in input order
joined_rows(t) ==
  SelectSeq(merged_of(universe, filter_wave(weights, wave_name)).rows,
            LAMBDA r : r[c_Ticker] = t)

in_universe(t) == \E i \in 1..Len(universe.rows) : universe.rows[i][c_Ticker_key] = t

\* C1: the sum of wave_weight over the holdings equals the sum of the weights
\* of the wave's normalized weight rows, for every universe, also one with
\* several rows of one ticker key.
C1_WeightConserved ==
  Built => sum_column(holdings_rows, c_WaveWeight) = sum_column(wave_rows, c_Weight)

\* C2: the holdings have exactly one row per distinct ticker of the wave's
\* weight rows, and a ticker with no match in the universe has its row, with
\* company and sector unset.
C2_OneRowPerTicker ==
  Built =>
    /\ {holdings_rows[i][c_Ticker] : i \in 1..Len(holdings_rows)} = wave_tickers
    /\ Len(holdings_rows) = Cardinality(wave_tickers)
    /\ \A i \in 1..Len(holdings_rows) :
         ~in_universe(holdings_rows[i][c_Ticker]) =>
           /\ isnull(holdings_rows[i][c_Company])
           /\ isnull(holdings_rows[i][c_Sector])

\* a wave with a ticker on two weight rows and a ticker the universe lacks
C2_Witness ==
  /\ Built
  /\ Len(wave_rows) > Cardinality(wave_tickers)
  /\ Len(holdings_rows) >= 2
  /\ \E i \in 1..Len(holdings_rows) : ~in_universe(holdings_rows[i][c_Ticker])

\* C3: with a sector field in the universe and a weight row in the wave, the
\* sector allocation weights sum to the holdings' wave_weight, and holdings
\* with no sector are counted in the bucket of the missing sector.
C3_SectorConserved ==
  (Built /\ c_Sector \in universe.columns /\ wave_rows # <<>>) =>
    /\ sum_column(sector_alloc_table.rows, c_Weight)
         = sum_column(holdings_rows, c_WaveWeight)
    /\ \A k \in 1..Len(sector_alloc_table.rows) :
         sector_alloc_table.rows[k][c_Weight]
           = sum_column(SelectSeq(holdings_rows,
                                  LAMBDA h : h[c_Sector]
                                               = sector_alloc_table.rows[k][c_Sector]),
                        c_WaveWeight)
    /\ \A i \in 1..Len(holdings_rows) :
         \E k \in 1..Len(sector_alloc_table.rows) :
           sector_alloc_table.rows[k][c_Sector] = holdings_rows[i][c_Sector]

\* holdings with a sector and holdings without
C3_Witness ==
  /\ Built
  /\ wave_rows # <<>>
  /\ \E i, j \in 1..Len(holdings_rows) :
       /\ isnull(holdings_rows[i][c_Sector])
       /\ ~isnull(holdings_rows[j][c_Sector])

sector_aliases ==
  {str_lower(c_Sector), str_lower(c_GICS_Sector),
   str_lower(c_Morningstar_Sector), str_lower(c_Industry)}

\* C4: when the raw universe has no sector column under any alias, the sector
\* allocation returned for any wave is empty.
C4_NoSectorColumnEmptyAllocation ==
  (Built /\ \A c \in raw_universe.columns : str_lower(c) \notin sector_aliases)
    => empty(sector_alloc_table)

\* C5: a wave name that matches no weight row gives two empty tables and no
\* error.
C5_UnknownWaveTwoEmptyTables ==
  (Built /\ \A i \in 1..Len(weights.rows) : weights.rows[i][c_Wave] # wave_name)
    => /\ Len(ret) = 2
       /\ empty(ret[1])
       /\ empty(ret[2])

\* a wave name without rows in a weights table that has rows
C5_Witness ==
  /\ pc = "built"
  /\ weights.rows # <<>>
  /\ \A i \in 1..Len(weights.rows) : weights.rows[i][c_Wave] # wave_name

\* C6: build_wave_view returns the pair (holdings, sector allocation) for
\* every wave name, with rows or without.
C6_AlwaysAPair == Built => Len(ret) = 2

ticker_aliases == {str_lower(c_Ticker), str_lower(c_Symbol)}

universe_load_done == pc # "start"

\* C7: load_universe accepts every table with a column named ticker or symbol
\* in any letter case and fails only when no column is.
C7_AliasesIgnoreCase ==
  universe_load_done =>
    ((err = "universe")
       <=> (\A c \in raw_universe.columns : str_lower(c) \notin ticker_aliases))

\* the column load_universe is to take the tickers from
expected_ticker_col ==
  IF c_Ticker \in raw_universe.columns THEN c_Ticker
  ELSE IF c_Symbol \in raw_universe.columns THEN c_Symbol
  ELSE c_ticker

\* C7, amended: load_universe accepts exactly the tables with a column named
\* Ticker, Symbol or ticker, takes the tickers from the first of these in this
\* order that is present, and fails when none is.
C7_ExactAliases ==
  universe_load_done =>
    /\ (err = "universe")
         <=> (raw_universe.columns \cap {c_Ticker, c_Symbol, c_ticker} = {})
    /\ (err # "universe") =>
         /\ Len(universe.rows) = Len(raw_universe.rows)
         /\ \A i \in 1..Len(universe.rows) :
              universe.rows[i][c_Ticker] = raw_universe.rows[i][expected_ticker_col]

\* a universe with a Symbol and a ticker column that differ
C7_Witness ==
  /\ pc = "universe_loaded"
  /\ {c_Symbol, c_ticker} \subseteq raw_universe.columns
  /\ \E i \in 1..Len(raw_universe.rows) :
       raw_universe.rows[i][c_Symbol] # raw_universe.rows[i][c_ticker]

weights_load_done == pc \in {"loaded", "built", "unpacked"} \/ err = "unpack"

raw_weight_cell(i, name) ==
  raw_weights.rows[i][CHOOSE c \in raw_weights.columns : str_strip(c) = name]

raw_weight_row_valid(i) ==
  /\ ~isnull(raw_weight_cell(i, c_Wave))
  /\ ~isnull(raw_weight_cell(i, c_Ticker))
  /\ ~to_numeric(raw_weight_cell(i, c_Weight)).nan
  /\ to_numeric(raw_weight_cell(i, c_Weight)).val > 0

\* C8: every row of the normalized weights comes from a raw row with a Wave,
\* a Ticker and a Weight that parses to a number above 0.
C8_OnlyCompleteRows ==
  weights_load_done =>
    \A k \in 1..Len(weights.rows) :
      \E i \in 1..Len(raw_weights.rows) :
        /\ raw_weight_row_valid(i)
        /\ weights.rows[k][c_Wave] = str_strip(raw_weight_cell(i, c_Wave))
        /\ weights.rows[k][c_Ticker]
             = str_upper(str_strip(raw_weight_cell(i, c_Ticker)))
        /\ weights.rows[k][c_Weight] = to_numeric(raw_weight_cell(i, c_Weight)).val

\* C9: the holdings row of a ticker carries the company and the sector of the
\* first joined row of that ticker, also when that value is unset.
C9_FirstRowWins ==
  (Built /\ Len(ret) = 3) =>
    \A i \in 1..Len(holdings_rows) :
      \A c \in {c_Company, c_Sector} :
        holdings_rows[i][c] = joined_rows(holdings_rows[i][c_Ticker])[1][c]

\* v is the first value of column c among the rows that is set, or unset
\* when none is
first_set_value(rows, c, v) ==
  \/ /\ \A j \in 1..Len(rows) : isnull(rows[j][c])
     /\ isnull(v)
  \/ \E j \in 1..Len(rows) :
       /\ ~isnull(rows[j][c])
       /\ \A k \in 1..(j - 1) : isnull(rows[k][c])
       /\ v = rows[j][c]

\* C9, amended: the holdings row of a ticker carries, for the company and for
\* the sector each, the first value among the joined rows of that ticker that
\* is set, and is unset only when it is unset in all of them.
C9_FirstSetValueWins ==
  (Built /\ Len(ret) = 3) =>
    \A i \in 1..Len(holdings_rows) :
      \A c \in {c_Company, c_Sector} :
        first_set_value(joined_rows(holdings_rows[i][c_Ticker]), c, holdings_rows[i][c])

\* joined rows of one ticker that disagree on the company, the first of them
\* having none
C9_Witness ==
  /\ Built
  /\ Len(ret) = 3
  /\ \E i \in 1..Len(holdings_rows) :
       LET g == joined_rows(holdings_rows[i][c_Ticker])
       IN  /\ Len(g) >= 2
           /\ isnull(g[1][c_Company])
           /\ ~isnull(g[2][c_Company])

non_increasing ==
  \A i \in 1..(Len(holdings_rows) - 1) :
    holdings_rows[i][c_WaveWeight] >= holdings_rows[i + 1][c_WaveWeight]

\* the place of the first weight row of the wave with ticker t
first_appearance(t) ==
  CHOOSE i \in 1..Len(wave_rows) :
    /\ wave_rows[i][c_Ticker] = t
    /\ \A j \in 1..(i - 1) : wave_rows[j][c_Ticker] # t

\* C10: the holdings are in non-increasing order of wave_weight, and tickers
\* of equal wave_weight are in the order of their first weight rows.
C10_StableOrder ==
  (Built /\ Len(ret) = 3) =>
    /\ non_increasing
    /\ \A i, j \in 1..Len(holdings_rows) :
         (i < j /\ holdings_rows[i][c_WaveWeight] = holdings_rows[j][c_WaveWeight])
           => first_appearance(holdings_rows[i][c_Ticker])
                < first_appearance(holdings_rows[j][c_Ticker])

\* C10, amended: the holdings are in non-increasing order of wave_weight, and
\* the top holdings are their first rows; the order of tickers of equal
\* wave_weight is not fixed by the weight rows.
C10_NonIncreasing ==
  (Built /\ Len(ret) = 3) =>
    /\ non_increasing
    /\ ret[2].rows
         = SubSeq(holdings_rows, 1,
                  IF Len(holdings_rows) < 10 THEN Len(holdings_rows) ELSE 10)

\* two tickers of equal wave_weight that are not in the order of their first
\* weight rows
C10_Witness ==
  /\ Built
  /\ Len(ret) = 3
  /\ \E i, j \in 1..Len(holdings_rows) :
       /\ i < j
       /\ holdings_rows[i][c_WaveWeight] = holdings_rows[j][c_WaveWeight]
       /\ first_appearance(holdings_rows[j][c_Ticker])
            < first_appearance(holdings_rows[i][c_Ticker])

====
